---- MODULE Spec2Model ----
(***************************************************************************)
(* Invoice intake queue (backend/src/services/invoiceQueue.ts) together    *)
(* with the parts of ocrService.ts its pipeline calls.                     *)
(*                                                                         *)
(* One action is one run-to-suspension segment of the JavaScript event     *)
(* loop: a public method runs to its return (processQueue and processJob   *)
(* included, up to their first await), and each continuation of an await   *)
(* runs to the next await or to the end of the function.                   *)
(***************************************************************************)
EXTENDS Integers, Sequences, FiniteSets, TLC

\* ---------------------------------------------------------------- bounds
MaxJobs == 4            \* jobs ever submitted
MaxBatch == 2           \* files in one addBatchJobs call
MaxEvents == 3          \* cancellations, retries, throws and clock advances
TickMs == 1800000       \* one clock advance, in milliseconds

\* ------------------------------------------------------ program constants
maxConcurrent == 3
RetentionMs == 3600000

\* ------------------------------------------------------------ value space
NoValue == "undefined"
NoDate == -1
CancelReason == "Cancelled by user"
ThrownMessage == "thrown message"

\* What a rejected promise / throw statement can carry, seen through the
\* expression `error.message` of processJob's catch block.
\*   Error     : an Error object with a non-empty message
\*   NoMessage : a value whose .message is undefined (a string, a plain object)
\*   Nullish   : null or undefined, on which .message itself throws TypeError
ErrorValue == "Error"
NoMessageValue == "NoMessage"
NullishValue == "Nullish"
ThrownValues == {ErrorValue, NoMessageValue, NullishValue}

\* Shapes of the record the extraction returns, by what the later stages do
\* with it:
\*   wellFormed : validation returns, the suggester needs no lookup
\*   nullItems  : totalAmount > 0 and items is null (the extraction prompt
\*                asks for null on missing data)
\*   missingHsn : some line item has no hsnCode, the suggester looks one up
ExtractedShapes == {"wellFormed", "nullItems", "missingHsn"}

\* job.result once assigned: {extractedData, validation, duplicateCheck,
\* corrections, filePath}
Bundle == "bundle"

Terminal == {"COMPLETED", "FAILED"}

VARIABLES
  queue,        \* InvoiceQueue.queue: the job table, ids in insertion order
  jobs,         \* the QueueJob objects of the table, by id
  processing,   \* InvoiceQueue.processing
  activeJobs,   \* InvoiceQueue.activeJobs
  loopPc,       \* where processQueue is suspended: idle / awaiting / sleeping
  batch,        \* processJob promises the pending allSettled still waits for
  pipeline,     \* suspended processJob calls: id -> the await they are at
  deleteCalls,  \* filePath -> number of deleteFile(filePath) calls made
  nextId,       \* next fresh job id; nextId - 1 jobs were submitted
  retries,      \* number of retryJob calls that returned true
  cancels,      \* number of cancelJob calls that returned true
  throws,       \* number of times processJob's catch block was entered
  purged,       \* completedAt of the jobs cleanupOldJobs has removed
  now,          \* Date.now()
  record,       \* the ExtractedInvoiceData handed to validateInvoiceData
  validation,   \* <<the ValidationResult it returned>>, NoValidation before
  corrections,  \* <<how generateCorrectionSuggestions settled>>, or none
  redisClient,  \* what config/redis.ts exports: "redis" or "mockRedis"
  connected,    \* the Redis server can be reached
  cached,       \* value under the key invoice:template:<supplierId>
  metadata,     \* the supplier row's metadata.invoiceTemplate
  calls,        \* calls of templateService: arguments, locals, await at
  cacheFaults,  \* cache commands that have thrown or rejected so far
  bills         \* purchase bills of the supplier: invoiceNumber -> status

queueVars == <<queue, jobs, processing, activeJobs, loopPc, batch, pipeline,
               deleteCalls, nextId, retries, cancels, throws, purged, now>>

validateVars == <<record, validation, corrections>>

templateVars == <<redisClient, connected, cached, metadata, calls,
                  cacheFaults>>

billVars == <<bills>>

vars == <<queueVars, validateVars, templateVars, billVars>>

\* ------------------------------------------------------------- helpers
\* events counted against MaxEvents so far
Events == retries + cancels + throws + now \div TickMs
MoreEvents == Events < MaxEvents

Min(a, b) == IF a < b THEN a ELSE b
Max(a, b) == IF a > b THEN a ELSE b

SeqToSet(s) == {s[i] : i \in 1..Len(s)}

\* slice without its end index: every PENDING job is taken
SliceFrom0_NoLimit(s, n) == s

\* Array.prototype.slice(0, n)
SliceFrom0(s, n) ==
  IF n >= 0 THEN SubSeq(s, 1, Min(n, Len(s)))
            ELSE SubSeq(s, 1, Max(Len(s) + n, 0))

\* The fields of the InvoiceQueue instance and of the objects it reaches, as
\* one value, so that a method can call another.
Q == [queue |-> queue, jobs |-> jobs, processing |-> processing,
      activeJobs |-> activeJobs, loopPc |-> loopPc, batch |-> batch,
      pipeline |-> pipeline, deleteCalls |-> deleteCalls, purged |-> purged]

SetQ(q) ==
  /\ queue' = q.queue
  /\ jobs' = q.jobs
  /\ processing' = q.processing
  /\ activeJobs' = q.activeJobs
  /\ loopPc' = q.loopPc
  /\ batch' = q.batch
  /\ pipeline' = q.pipeline
  /\ deleteCalls' = q.deleteCalls
  /\ purged' = q.purged
  /\ UNCHANGED <<validateVars, templateVars, billVars>>

NewJob(id) ==
  [status |-> "PENDING", progress |-> 0, result |-> NoValue,
   error |-> NoValue, completedAt |-> NoDate, filePath |-> id]

PendingIds(q) == SelectSeq(q.queue, LAMBDA j : q.jobs[j].status = "PENDING")

\* the call deleteFile(job.filePath)
deleteFile(q, path) == [q EXCEPT !.deleteCalls[path] = @ + 1]

\* ocrService.validateInvoiceData throws a TypeError at data.items.reduce
ValidateThrows(d) == d = "nullItems"

\* ocrService.generateCorrectionSuggestions reaches a persistence lookup
NeedsLookup(d) == d = "missingHsn"

\* the value of `error.message` for a thrown value it can be read from
MessageOf(thrown) == IF thrown = ErrorValue THEN ThrownMessage ELSE NoValue

\* ------------------------------------------------------- cleanupOldJobs
\* a retention window of six minutes, a digit short of the hour
Keep_ShortRetention(q, j, t) ==
  IF q.jobs[j].status \in Terminal /\ q.jobs[j].completedAt # NoDate
    THEN q.jobs[j].completedAt > t - 360000
    ELSE TRUE

Keep(q, j, t) ==
  IF q.jobs[j].status \in Terminal /\ q.jobs[j].completedAt # NoDate
    THEN q.jobs[j].completedAt > t - RetentionMs
    ELSE TRUE

cleanupOldJobs(q, t) ==
  LET kept == SelectSeq(q.queue, LAMBDA j : Keep(q, j, t))
  IN [q EXCEPT !.queue = kept,
               !.jobs = [j \in SeqToSet(kept) |-> q.jobs[j]],
               !.purged = @ \cup {q.jobs[j].completedAt :
                                    j \in DOMAIN q.jobs \ SeqToSet(kept)}]

\* ------------------------------------------- processJob, up to its await
\* processJob without its activeJobs++
StartJob_NoCount(q, j) ==
  [q EXCEPT !.jobs[j].status = "PROCESSING",
            !.jobs[j].progress = 20,
            !.pipeline = [k \in DOMAIN q.pipeline \cup {j} |->
                            IF k = j THEN "extract"
                                     ELSE q.pipeline[k]]]

\* activeJobs++, PROCESSING, progress 10 then 20, processInvoice is called
StartJob(q, j) ==
  [q EXCEPT !.activeJobs = @ + 1,
            !.jobs[j].status = "PROCESSING",
            !.jobs[j].progress = 20,
            !.pipeline = [k \in DOMAIN q.pipeline \cup {j} |->
                            IF k = j THEN "extract"
                                     ELSE q.pipeline[k]]]

RECURSIVE StartJobs(_, _)
StartJobs(q, js) ==
  IF js = <<>> THEN q ELSE StartJobs(StartJob(q, Head(js)), Tail(js))

\* ------------------------------------ processQueue, one turn of the loop
\* From the while test to the next await, or to the return.
LoopTurn(q) ==
  IF PendingIds(q) # <<>> \/ q.activeJobs > 0
    THEN LET pendingJobs == SliceFrom0(PendingIds(q), maxConcurrent - q.activeJobs)
         IN IF pendingJobs = <<>>
              THEN [q EXCEPT !.loopPc = "sleeping"]
              ELSE [StartJobs(q, pendingJobs) EXCEPT
                      !.loopPc = "awaiting",
                      !.batch = SeqToSet(pendingJobs)]
    ELSE [q EXCEPT !.processing = FALSE, !.loopPc = "idle"]

processQueue(q) == LoopTurn([q EXCEPT !.processing = TRUE])

\* ---------------------------------------------------------------- addJob
\* addJob without the `if (!this.processing)` test
addJob_AlwaysStarts(q, id) ==
  processQueue([q EXCEPT
                  !.queue = Append(@, id),
                  !.jobs = [j \in DOMAIN q.jobs \cup {id} |->
                              IF j = id THEN NewJob(id) ELSE q.jobs[j]],
                  !.deleteCalls =
                     [j \in DOMAIN q.deleteCalls \cup {id} |->
                        IF j = id THEN 0 ELSE q.deleteCalls[j]]])

addJob(q, id) ==
  LET pushed == [q EXCEPT
                   !.queue = Append(@, id),
                   !.jobs = [j \in DOMAIN q.jobs \cup {id} |->
                               IF j = id THEN NewJob(id) ELSE q.jobs[j]],
                   !.deleteCalls =
                      [j \in DOMAIN q.deleteCalls \cup {id} |->
                         IF j = id THEN 0 ELSE q.deleteCalls[j]]]
  IN IF ~pushed.processing THEN processQueue(pushed) ELSE pushed

RECURSIVE addJobsFrom(_, _, _)
addJobsFrom(q, id, n) ==
  IF n = 0 THEN q ELSE addJobsFrom(addJob(q, id), id + 1, n - 1)

\* no record is under validation
NoRecord == "no record"
NoValidation == <<>>
NoCorrections == <<>>

ValidateIdle ==
  /\ record = NoRecord
  /\ validation = NoValidation
  /\ corrections = NoCorrections

\* bounds of the template service
MaxCalls == 3           \* calls of templateService ever made

\* no template is stored or cached and no learnFromInvoice call was made
NoTemplate == <<>>
NoInvoice == <<>>
NoResult == <<>>
NoCall == [op |-> "none", pc |-> "none", invoiceData |-> NoInvoice,
           wasAccurate |-> FALSE, overlaps |-> FALSE, got |-> NoTemplate,
           template |-> NoTemplate, result |-> NoResult]

TemplateIdle ==
  /\ redisClient = "redis"
  /\ connected = TRUE
  /\ cached = NoTemplate
  /\ metadata = NoTemplate
  /\ calls = [c \in 1..MaxCalls |-> NoCall]
  /\ cacheFaults = 0

\* no purchase bill has been created
NoBill == "none"
BilledNumbers == {"INV-2024-001", "BILL-A"}
BillIdle == bills = [n \in BilledNumbers |-> NoBill]

QueueIdle ==
  /\ queue = <<>>
  /\ jobs = <<>>
  /\ processing = FALSE
  /\ activeJobs = 0
  /\ loopPc = "idle"
  /\ batch = {}
  /\ pipeline = <<>>
  /\ deleteCalls = <<>>
  /\ nextId = 1
  /\ retries = 0
  /\ cancels = 0
  /\ throws = 0
  /\ purged = {}
  /\ now = 0

Init ==
  /\ QueueIdle
  /\ ValidateIdle
  /\ TemplateIdle
  /\ BillIdle

AddJob ==
  /\ nextId <= MaxJobs
  /\ SetQ(addJob(Q, nextId))
  /\ nextId' = nextId + 1
  /\ UNCHANGED <<retries, cancels, throws, now>>

AddBatchJobs ==
  \E n \in 1..MaxBatch :
    /\ nextId + n - 1 <= MaxJobs
    /\ SetQ(addJobsFrom(Q, nextId, n))
    /\ nextId' = nextId + n
    /\ UNCHANGED <<retries, cancels, throws, now>>

\* ------------------------------------------------- processJob, the rest
\* finally block, then the promise of processJob settles
Finally(q, j, t) ==
  LET released == [q EXCEPT !.activeJobs = @ - 1]
      cleaned == cleanupOldJobs(released, t)
  IN [cleaned EXCEPT
        !.pipeline = [k \in DOMAIN q.pipeline \ {j} |-> q.pipeline[k]],
        !.batch = @ \ {j}]

\* catch block entered with the thrown value, then finally
Catch(q, j, thrown, t) ==
  LET marked == [q EXCEPT !.jobs[j].status = "FAILED"]
      handled ==
        IF thrown = NullishValue
          THEN marked   \* error.message throws, the block is left at once
          ELSE deleteFile([marked EXCEPT
                             !.jobs[j].error = MessageOf(thrown),
                             !.jobs[j].completedAt = t],
                          marked.jobs[j].filePath)
  IN Finally(handled, j, t)

\* lines 149-158, then finally
Complete(q, j, t) ==
  Finally([q EXCEPT !.jobs[j].status = "COMPLETED",
                    !.jobs[j].progress = 100,
                    !.jobs[j].completedAt = t,
                    !.jobs[j].result = Bundle],
          j, t)

AtPc(j, pc) == j \in DOMAIN pipeline /\ pipeline[j] = pc

\* a stage throws into the catch block
Throws(q, j, thrown) ==
  /\ MoreEvents
  /\ SetQ(Catch(q, j, thrown, now))
  /\ throws' = throws + 1

\* processInvoice settles. It rejects only with the Error that
\* extractInvoiceDataWithAI builds; on a value, progress is 50 and
\* validateInvoiceData runs at once, inside the same try.
ExtractionReturns(j) ==
  /\ AtPc(j, "extract")
  /\ \/ Throws(Q, j, ErrorValue)
     \/ \E d \in ExtractedShapes :
          LET got == [Q EXCEPT !.jobs[j].progress = 50]
          IN IF ValidateThrows(d)
               THEN Throws(got, j, ErrorValue)
               ELSE /\ SetQ([got EXCEPT !.pipeline[j] = "validate"])
                    /\ UNCHANGED throws
  /\ UNCHANGED <<nextId, retries, cancels, now>>

\* `await validateInvoiceData(...)` resumes; checkDuplicateInvoice is called
ValidationResumes(j) ==
  /\ AtPc(j, "validate")
  /\ SetQ([Q EXCEPT !.jobs[j].progress = 70, !.pipeline[j] = "duplicate"])
  /\ UNCHANGED <<nextId, retries, cancels, throws, now>>

\* prisma.purchaseBill.findFirst settles; on a value, progress is 85 and
\* generateCorrectionSuggestions is called
DuplicateCheckReturns(j) ==
  /\ AtPc(j, "duplicate")
  /\ \/ \E thrown \in ThrownValues : Throws(Q, j, thrown)
     \/ /\ SetQ([Q EXCEPT !.jobs[j].progress = 85, !.pipeline[j] = "suggest"])
        /\ UNCHANGED throws
  /\ UNCHANGED <<nextId, retries, cancels, now>>

\* generateCorrectionSuggestions settles. Where the record makes it reach a
\* lookup it evaluates `prisma`, a name ocrService.ts neither imports nor
\* declares: a ReferenceError, which has a message.
SuggestionsReturn(j) ==
  /\ AtPc(j, "suggest")
  /\ \E d \in ExtractedShapes :
       /\ ~ValidateThrows(d)
       /\ IF NeedsLookup(d)
            THEN Throws(Q, j, ErrorValue)
            ELSE /\ SetQ(Complete([Q EXCEPT !.jobs[j].progress = 95], j, now))
                 /\ UNCHANGED throws
  /\ UNCHANGED <<nextId, retries, cancels, now>>

\* processQueue resumes after allSettled or after the 500 ms timer
LoopResumes ==
  /\ loopPc \in {"awaiting", "sleeping"}
  /\ loopPc = "awaiting" => batch = {}
  /\ SetQ(LoopTurn(Q))
  /\ UNCHANGED <<nextId, retries, cancels, throws, now>>

\* ------------------------------------------------------------- cancelJob
\* cancelJob that also accepts a job a worker holds
CanCancel_AlsoProcessing(q, id) ==
  id \in DOMAIN q.jobs /\ q.jobs[id].status \in {"PENDING", "PROCESSING"}

CanCancel(q, id) == id \in DOMAIN q.jobs /\ q.jobs[id].status = "PENDING"

cancelJob(q, id, t) ==
  IF CanCancel(q, id)
    THEN deleteFile([q EXCEPT !.jobs[id].status = "FAILED",
                              !.jobs[id].error = CancelReason,
                              !.jobs[id].completedAt = t],
                    q.jobs[id].filePath)
    ELSE q

\* the value cancelJob returns
cancelJobReturns(q, id) == CanCancel(q, id)

\* A call that returns false changes no variable: it is a stuttering step,
\* which [Next]_vars admits in every state.
CancelJob(id) ==
  /\ cancelJobReturns(Q, id)
  /\ MoreEvents
  /\ SetQ(cancelJob(Q, id, now))
  /\ cancels' = cancels + 1
  /\ UNCHANGED <<nextId, retries, throws, now>>

\* -------------------------------------------------------------- retryJob
\* retryJob that accepts any finished job
CanRetry_AnyTerminal(q, id) ==
  id \in DOMAIN q.jobs /\ q.jobs[id].status \in Terminal

CanRetry(q, id) == id \in DOMAIN q.jobs /\ q.jobs[id].status = "FAILED"

\* retryJob that leaves error and completedAt as they were
retryJob_KeepsError(q, id) ==
  IF CanRetry(q, id)
    THEN LET reset == [q EXCEPT !.jobs[id].status = "PENDING",
                                !.jobs[id].progress = 0]
         IN IF ~reset.processing THEN processQueue(reset) ELSE reset
    ELSE q

retryJob(q, id) ==
  IF CanRetry(q, id)
    THEN LET reset == [q EXCEPT !.jobs[id].status = "PENDING",
                                !.jobs[id].progress = 0,
                                !.jobs[id].error = NoValue,
                                !.jobs[id].completedAt = NoDate]
         IN IF ~reset.processing THEN processQueue(reset) ELSE reset
    ELSE q

\* the value retryJob resolves to
retryJobReturns(q, id) == CanRetry(q, id)

\* A call that resolves to false changes no variable: a stuttering step.
RetryJob(id) ==
  /\ retryJobReturns(Q, id)
  /\ MoreEvents
  /\ SetQ(retryJob(Q, id))
  /\ retries' = retries + 1
  /\ UNCHANGED <<nextId, cancels, throws, now>>

\* --------------------------------------------------------- getQueueStats
CountStatus(s) == Cardinality({j \in DOMAIN jobs : jobs[j].status = s})

getQueueStats ==
  [total |-> Len(queue),
   pending |-> CountStatus("PENDING"),
   processing |-> CountStatus("PROCESSING"),
   completed |-> CountStatus("COMPLETED"),
   failed |-> CountStatus("FAILED"),
   activeJobs |-> activeJobs]

\* ------------------------------------------------------------- the clock
Tick ==
  /\ MoreEvents
  /\ now' = now + TickMs
  /\ UNCHANGED <<queue, jobs, processing, activeJobs, loopPc, batch,
                 pipeline, deleteCalls, nextId, retries, cancels, throws,
                 purged, validateVars, templateVars, billVars>>

JobIds == 1..MaxJobs

Next ==
  \/ AddJob
  \/ AddBatchJobs
  \/ \E j \in JobIds : ExtractionReturns(j)
  \/ \E j \in JobIds : ValidationResumes(j)
  \/ \E j \in JobIds : DuplicateCheckReturns(j)
  \/ \E j \in JobIds : SuggestionsReturn(j)
  \/ LoopResumes
  \/ \E j \in JobIds : CancelJob(j)
  \/ \E j \in JobIds : RetryJob(j)
  \/ Tick

Spec == Init /\ [][Next]_vars

\* Fairness: a settled promise's continuation is run by the event loop, and
\* every external call is assumed to settle. Requests (addJob, cancelJob,
\* retryJob) and the clock are under no obligation.
Fairness ==
  /\ WF_vars(LoopResumes)
  /\ \A j \in JobIds :
       /\ WF_vars(ExtractionReturns(j))
       /\ WF_vars(ValidationResumes(j))
       /\ WF_vars(DuplicateCheckReturns(j))
       /\ WF_vars(SuggestionsReturn(j))

FairSpec == Spec /\ Fairness

TypeOK ==
  /\ DOMAIN jobs = SeqToSet(queue)
  /\ DOMAIN pipeline = {j \in DOMAIN jobs : jobs[j].status = "PROCESSING"}
  /\ activeJobs \in 0..maxConcurrent
  /\ processing \in BOOLEAN
  /\ loopPc \in {"idle", "awaiting", "sleeping"}
  /\ processing <=> loopPc # "idle"

\* ------------------------------------------------------------------------
\* Vocabulary of the properties
InTable(j) == j \in DOMAIN jobs
StaysInTable(j) == j \in DOMAIN jobs /\ j \in DOMAIN jobs'
StatusOf(j) == jobs[j].status
Age(t) == now - t

\* the step cancels job j: only cancelJob takes a job from PENDING to FAILED
CancelStep(j) ==
  /\ StaysInTable(j)
  /\ jobs[j].status = "PENDING"
  /\ jobs'[j].status = "FAILED"

\* the step resets job j: only retryJob takes a job out of FAILED
RetryStep(j) ==
  /\ StaysInTable(j)
  /\ jobs[j].status = "FAILED"
  /\ jobs'[j].status # "FAILED"

\* the step is a worker's catch block for job j
FailStep(j) ==
  /\ StaysInTable(j)
  /\ jobs[j].status = "PROCESSING"
  /\ jobs'[j].status = "FAILED"

\* ------------------------------------------------------------------------
\* C1: in every reachable state at most maxConcurrent (3) jobs have status
\* PROCESSING.
C1_AtMostMaxConcurrentProcessing ==
  getQueueStats.processing <= maxConcurrent

\* The limit is reached while a further job waits as PENDING.
C1_Witness ==
  /\ getQueueStats.processing = maxConcurrent
  /\ getQueueStats.pending >= 1

\* ------------------------------------------------------------------------
\* C2: with every external call settling, every job that is PENDING or
\* PROCESSING eventually is COMPLETED with a result or FAILED with an error
\* string.
C2_ReachesResultOrErrorString ==
  \A j \in JobIds :
    (InTable(j) /\ StatusOf(j) \in {"PENDING", "PROCESSING"})
      ~> (InTable(j) /\ \/ StatusOf(j) = "COMPLETED" /\ jobs[j].result # NoValue
                        \/ StatusOf(j) = "FAILED" /\ jobs[j].error # NoValue)

\* The parts of C2 the code does keep: a PENDING job always has a running
\* processQueue loop (no lost wake-up of the processing flag) ...
C2_NoLostWakeup ==
  \A j \in DOMAIN jobs : StatusOf(j) = "PENDING" => processing

\* ... and every job that is PENDING or PROCESSING leaves that status.
C2_ReachesTerminalStatus ==
  \A j \in JobIds :
    (InTable(j) /\ StatusOf(j) \in {"PENDING", "PROCESSING"})
      ~> (InTable(j) /\ StatusOf(j) \in Terminal)

\* ------------------------------------------------------------------------
\* C3 as claimed: a job's status changes only PENDING -> PROCESSING,
\* PROCESSING -> COMPLETED or PROCESSING -> FAILED.
C3_OnlyThroughProcessing ==
  [][\A j \in JobIds :
       StaysInTable(j) /\ jobs'[j].status # jobs[j].status =>
         <<jobs[j].status, jobs'[j].status>> \in
            {<<"PENDING", "PROCESSING">>, <<"PROCESSING", "COMPLETED">>,
             <<"PROCESSING", "FAILED">>}]_vars

\* C3 as amended: besides the worker's PENDING -> PROCESSING -> COMPLETED or
\* FAILED, cancelJob takes PENDING to FAILED and retryJob takes FAILED to
\* PENDING (to PROCESSING when the call itself starts the loop); COMPLETED is
\* entered from PROCESSING only and never left.
C3_StatusTransitions ==
  [][\A j \in JobIds :
       StaysInTable(j) /\ jobs'[j].status # jobs[j].status =>
         \/ <<jobs[j].status, jobs'[j].status>> \in
              {<<"PENDING", "PROCESSING">>, <<"PROCESSING", "COMPLETED">>,
               <<"PROCESSING", "FAILED">>}
         \/ /\ <<jobs[j].status, jobs'[j].status>> = <<"PENDING", "FAILED">>
            /\ cancels' = cancels + 1
         \/ /\ <<jobs[j].status, jobs'[j].status>> = <<"FAILED", "PENDING">>
            /\ retries' = retries + 1
            /\ processing
         \/ /\ <<jobs[j].status, jobs'[j].status>> = <<"FAILED", "PROCESSING">>
            /\ retries' = retries + 1
            /\ ~processing]_vars

\* A cancelled job sits FAILED next to a job a worker has COMPLETED.
C3_Witness ==
  \E j, k \in DOMAIN jobs :
    /\ StatusOf(j) = "FAILED" /\ jobs[j].progress = 0
    /\ StatusOf(k) = "COMPLETED"

\* ------------------------------------------------------------------------
\* What C4 says of a cancelJob call that finds nothing to cancel: for a
\* PROCESSING, COMPLETED, FAILED or unknown job it returns false and changes
\* nothing.
C4_RejectedCancel ==
  \A id \in JobIds :
    (InTable(id) => StatusOf(id) \in {"PROCESSING", "COMPLETED", "FAILED"}) =>
      /\ ~cancelJobReturns(Q, id)
      /\ cancelJob(Q, id, now) = Q

\* What C4 says of a cancelled job afterwards: it leaves FAILED only by a
\* retryJob call.
C4_NotPickedUp(j) ==
  RetryStep(j) => retries' = retries + 1

\* C4 as claimed: cancelling a PENDING job returns true, the job is FAILED
\* with reason "cancelled" and deleteFile is called on its file.
C4_CancelReasonCancelled ==
  [][\A j \in JobIds :
       CancelStep(j) =>
         /\ cancelJobReturns(Q, j)
         /\ jobs'[j].error = "cancelled"
         /\ deleteCalls'[j] = deleteCalls[j] + 1]_vars

\* C4 as amended: the reason stored is "Cancelled by user"; the rest of the
\* claim stands.
C4_CancelJob ==
  /\ []C4_RejectedCancel
  /\ [][\A j \in JobIds :
          /\ CancelStep(j) =>
               /\ cancelJobReturns(Q, j)
               /\ jobs'[j].error = "Cancelled by user"
               /\ jobs'[j].completedAt = now
               /\ jobs'[j].progress = jobs[j].progress
               /\ deleteCalls'[j] = deleteCalls[j] + 1
               /\ j \notin DOMAIN pipeline'
          /\ C4_NotPickedUp(j)]_vars

\* A job was cancelled while another was PROCESSING, which cancelJob refuses.
C4_Witness ==
  \E j, k \in DOMAIN jobs :
    /\ StatusOf(j) = "FAILED" /\ jobs[j].error = CancelReason
    /\ deleteCalls[j] = 1
    /\ StatusOf(k) = "PROCESSING"
    /\ ~cancelJobReturns(Q, k)

\* ------------------------------------------------------------------------
\* C5: for every job, result is set exactly when status is COMPLETED and
\* error is set exactly when status is FAILED.
C5_ResultIffCompletedErrorIffFailed ==
  \A j \in DOMAIN jobs :
    /\ jobs[j].result # NoValue <=> StatusOf(j) = "COMPLETED"
    /\ jobs[j].error # NoValue <=> StatusOf(j) = "FAILED"

\* The half of C5 the code keeps for every thrown value.
C5_ResultIffCompleted ==
  \A j \in DOMAIN jobs : jobs[j].result # NoValue <=> StatusOf(j) = "COMPLETED"

\* ------------------------------------------------------------------------
\* C6: a job whose extraction succeeded (progress 50 or more) is never FAILED
\* and no step deletes its file, whatever validation, the duplicate lookup
\* or the suggester do.
C6_NoFailureAfterExtraction ==
  [][\A j \in JobIds :
       StaysInTable(j) /\ jobs'[j].progress >= 50 =>
         /\ jobs'[j].status # "FAILED"
         /\ deleteCalls'[j] = deleteCalls[j]]_vars

\* ------------------------------------------------------------------------
\* C7: when a worker's pipeline throws, the job is FAILED with a reason
\* captured, its file is deleted by exactly one deleteFile call, and the slot
\* is released.
C7_ThrowHandled ==
  [][\A j \in JobIds :
       FailStep(j) =>
         /\ jobs'[j].error # NoValue
         /\ jobs'[j].completedAt = now
         /\ deleteCalls'[j] = deleteCalls[j] + 1
         /\ activeJobs' = activeJobs - 1
         /\ j \notin DOMAIN pipeline']_vars

\* The part of C7 the code keeps for every thrown value: the slot is released.
C7_SlotReleased ==
  [][\A j \in JobIds :
       FailStep(j) => activeJobs' = activeJobs - 1 /\ j \notin DOMAIN pipeline']_vars

\* ------------------------------------------------------------------------
\* C8 as claimed: when addJob returns, the job it created is PENDING with
\* progress 0, on an idle queue too.
C8_PendingWhenAddJobReturns ==
  [][nextId' = nextId + 1 =>
       /\ jobs'[nextId].status = "PENDING"
       /\ jobs'[nextId].progress = 0]_vars

\* C8 as amended: the job is PENDING with progress 0 when addJob returns on a
\* queue whose processQueue loop is running; on an idle queue addJob starts
\* the loop itself, and the job is PROCESSING with progress 20, its
\* extraction call issued and no stage finished, when addJob returns.
C8_AddJobReturn ==
  [][nextId' = nextId + 1 =>
       /\ nextId \in DOMAIN jobs'
       /\ processing'
       /\ jobs'[nextId].result = NoValue
       /\ jobs'[nextId].error = NoValue
       /\ IF processing
            THEN /\ jobs'[nextId].status = "PENDING"
                 /\ jobs'[nextId].progress = 0
                 /\ nextId \notin DOMAIN pipeline'
            ELSE /\ jobs'[nextId].status = "PROCESSING"
                 /\ jobs'[nextId].progress = 20
                 /\ nextId \in DOMAIN pipeline'
                 /\ pipeline'[nextId] = "extract"]_vars

\* The job added last waits as PENDING with progress 0 while a worker that
\* has room for it is in its extraction call.
C8_Witness ==
  /\ nextId - 1 \in DOMAIN jobs
  /\ jobs[nextId - 1].status = "PENDING"
  /\ jobs[nextId - 1].progress = 0
  /\ activeJobs < maxConcurrent
  /\ \E k \in DOMAIN pipeline : pipeline[k] = "extract"

\* ------------------------------------------------------------------------
\* What C9 says of a retryJob call that finds nothing to retry: for a
\* PENDING, PROCESSING, COMPLETED or unknown job it resolves to false and
\* changes nothing.
C9_RejectedRetry ==
  \A id \in JobIds :
    (InTable(id) => StatusOf(id) \in {"PENDING", "PROCESSING", "COMPLETED"}) =>
      /\ ~retryJobReturns(Q, id)
      /\ retryJob(Q, id) = Q

Submitted == nextId - 1

\* every job that finished, in the table or removed from it, with its time
FinishedAt ==
  purged \cup {jobs[j].completedAt :
                 j \in {k \in DOMAIN jobs : /\ jobs[k].status \in Terminal
                                            /\ jobs[k].completedAt # NoDate}}

\* C10 as claimed: total equals the number of jobs submitted as long as no
\* terminal job is older than one hour.
C10_TotalUntilOlderThanOneHour ==
  (\A t \in FinishedAt : Age(t) <= RetentionMs) =>
    getQueueStats.total = Submitted

\* C10 as amended: a job is removed only when it is COMPLETED or FAILED with
\* a completion time at least one hour old, so total equals the number of
\* jobs submitted as long as every terminal job finished less than one hour
\* ago.
C10_Retention ==
  /\ []((\A t \in FinishedAt : Age(t) < RetentionMs) =>
          getQueueStats.total = Submitted)
  /\ [][\A j \in DOMAIN jobs \ DOMAIN jobs' :
          /\ jobs[j].status \in Terminal
          /\ jobs[j].completedAt # NoDate
          /\ now' - jobs[j].completedAt >= RetentionMs]_vars

\* cleanupOldJobs ran (a job finished now) and kept an older terminal job
\* that is not yet one hour old.
C10_Witness ==
  \E j, k \in DOMAIN jobs :
    /\ StatusOf(j) \in Terminal /\ StatusOf(k) \in Terminal
    /\ jobs[k].completedAt = now
    /\ jobs[j].completedAt # NoDate
    /\ Age(jobs[j].completedAt) > 0
    /\ Age(jobs[j].completedAt) < RetentionMs
    /\ getQueueStats.total = Submitted

\* ------------------------------------------------------------------------
\* C11: under FairSpec, a COMPLETED or FAILED job whose completion time is
\* more than one hour old is eventually removed from the job table (or is
\* no longer terminal, having been retried).
C11_EventuallyPurged ==
  \A j \in JobIds :
    (/\ InTable(j)
     /\ StatusOf(j) \in Terminal
     /\ jobs[j].completedAt # NoDate
     /\ Age(jobs[j].completedAt) > RetentionMs)
      ~> (~InTable(j) \/ StatusOf(j) \notin Terminal)

\* ------------------------------------------------------------------------
\* The job whose extraction call may hang: the first one submitted.
HungJob == CHOOSE j \in JobIds : \A k \in JobIds : j <= k

\* Fairness with one hung extraction: as Fairness, but the extraction call of
\* HungJob is under no obligation to settle.
HungFairness ==
  /\ WF_vars(LoopResumes)
  /\ \A j \in JobIds \ {HungJob} : WF_vars(ExtractionReturns(j))
  /\ \A j \in JobIds :
       /\ WF_vars(ValidationResumes(j))
       /\ WF_vars(DuplicateCheckReturns(j))
       /\ WF_vars(SuggestionsReturn(j))

HungSpec == Spec /\ HungFairness

\* C12: under HungSpec, if the extraction call of HungJob never returns,
\* every other job that is PENDING is eventually COMPLETED or FAILED.
C12_OthersStillServed ==
  (<>[]AtPc(HungJob, "extract")) =>
    \A j \in JobIds \ {HungJob} :
      (InTable(j) /\ StatusOf(j) = "PENDING")
        ~> (InTable(j) /\ StatusOf(j) \in Terminal)

\* ========================================================================
\* ocrService.validateInvoiceData
\* ========================================================================
MaxItems == 2           \* line items of a record

\* Line items the records are built from (gstRate plays no part in
\* validation): complete; without hsnCode and amount off by exactly 1;
\* without hsnCode and amount off by 5; nothing usable.
LineItems ==
  { [name |-> "Widget", hsnCode |-> "8471", quantity |-> 2, unitPrice |-> 10,
     amount |-> 20],
    [name |-> "Bolt", hsnCode |-> "", quantity |-> 1, unitPrice |-> 10,
     amount |-> 11],
    [name |-> "Cable", hsnCode |-> "", quantity |-> 2, unitPrice |-> 10,
     amount |-> 25],
    [name |-> "", hsnCode |-> "", quantity |-> 0, unitPrice |-> 0,
     amount |-> 10] }

ItemLists == UNION {[1..n -> LineItems] : n \in 0..MaxItems}

InvoiceNumbers == {"", "INV-2024-001", "#7"}
\* invoiceDate with supplierName
Headings ==
  { [invoiceDate |-> "2026-10-20", supplierName |-> "Acme Traders"],
    [invoiceDate |-> "", supplierName |-> "AB"],
    [invoiceDate |-> "n/a", supplierName |-> "Acme Traders"],
    [invoiceDate |-> "2030-01-01", supplierName |-> ""] }
SupplierGSTINs == {"", "99INVALID", "29AAAAA0000A1Z5", "27AAAAA0000A1Z5"}
Subtotals == {20, 21, 30, 31}
TotalAmounts == {0, 20, 24, 100}
Taxes == { [cgst |-> 0, sgst |-> 0, igst |-> 0],
           [cgst |-> 2, sgst |-> 2, igst |-> 0],
           [cgst |-> 0, sgst |-> 0, igst |-> 4] }
Confidences == {80, 85}

ExtractedInvoiceData(n, h, g, st, tx, tot, its, c) ==
  [invoiceNumber |-> n, invoiceDate |-> h.invoiceDate,
   supplierName |-> h.supplierName, supplierGSTIN |-> g, subtotal |-> st,
   cgst |-> tx.cgst, sgst |-> tx.sgst, igst |-> tx.igst, totalAmount |-> tot,
   items |-> its, confidence |-> c]

\* an entry of errors, warnings or suggestions: the line item it names
\* (0 for the record itself) and its text, figures left out
Msg(i, text) == <<i, text>>

Abs(x) == IF x < 0 THEN -x ELSE x

\* /^[A-Z0-9\-\/]{3,30}$/i on the strings of InvoiceNumbers
InvoiceNumberRegexTest(s) == s = "INV-2024-001"

\* new Date(s) on the strings of InvoiceDates, in days after today;
\* NaN for a string that is no date
IsNaNDate(s) == s = "n/a"
DaysAfterToday(s) ==
  CASE s = "2026-10-20" -> -14
    [] s = "2020-01-15" -> -2484
    [] s = "2030-01-01" -> 1155
    [] OTHER -> 0

\* gstValidation.validateGSTINFormat on the strings of SupplierGSTINs
validateGSTINFormat(gstin) ==
  CASE gstin = "29AAAAA0000A1Z5" -> [valid |-> TRUE, stateCode |-> "29"]
    [] gstin = "27AAAAA0000A1Z5" -> [valid |-> TRUE, stateCode |-> "27"]
    [] OTHER -> [valid |-> FALSE, stateCode |-> ""]

\* process.env.COMPANY_STATE_CODE || '29'
companyStateCode == "29"

NoFindings == [errors |-> <<>>, warnings |-> <<>>, suggestions |-> <<>>]

\* lines 229-242
ValidateInvoiceNumber(data) ==
  IF data.invoiceNumber = ""
    THEN [NoFindings EXCEPT
            !.errors = <<Msg(0, "Invoice number is missing")>>]
         @@ [score |-> 0]
    ELSE IF InvoiceNumberRegexTest(data.invoiceNumber)
      THEN NoFindings @@ [score |-> 95]
      ELSE [NoFindings EXCEPT
              !.warnings = <<Msg(0, "Invoice number format is unusual")>>]
           @@ [score |-> 60]

\* lines 244-260
ValidateDate(data) ==
  IF data.invoiceDate = ""
    THEN [NoFindings EXCEPT !.errors = <<Msg(0, "Invoice date is missing")>>]
    ELSE IF IsNaNDate(data.invoiceDate)
      THEN [NoFindings EXCEPT
              !.errors = <<Msg(0, "Invalid invoice date format")>>]
      ELSE IF DaysAfterToday(data.invoiceDate) > 0
        THEN [NoFindings EXCEPT
                !.warnings = <<Msg(0, "Invoice date is in the future")>>]
        ELSE IF DaysAfterToday(data.invoiceDate) < -365
          THEN [NoFindings EXCEPT
                  !.warnings = <<Msg(0, "Invoice is more than 1 year old")>>]
          ELSE NoFindings

\* lines 262-267; the length of the strings of SupplierNames
ValidateSupplier(data) ==
  IF data.supplierName = ""
    THEN [NoFindings EXCEPT !.errors = <<Msg(0, "Supplier name is missing")>>]
    ELSE IF data.supplierName = "AB"
      THEN [NoFindings EXCEPT
              !.warnings = <<Msg(0, "Supplier name seems too short")>>]
      ELSE NoFindings

\* data.items.reduce((sum, item) => sum + (item.amount || 0), 0)
RECURSIVE SumAmounts(_)
SumAmounts(items) ==
  IF items = <<>> THEN 0 ELSE Head(items).amount + SumAmounts(Tail(items))

gstTotal(data) == data.cgst + data.sgst + data.igst

\* the grand total is within one unit: the score is raised to 90
BumpForTotal_OnlyWhenSubtotalMatches(score, subtotalDiff, totalDiff) ==
  IF totalDiff <= 1 /\ subtotalDiff <= 1 THEN Max(score, 90) ELSE score

\* lines 292-293
BumpForTotal(score, subtotalDiff, totalDiff) ==
  IF totalDiff <= 1 THEN Max(score, 90) ELSE score

\* lines 269-297
ValidateAmounts(data) ==
  IF data.totalAmount <= 0
    THEN [NoFindings EXCEPT !.errors = <<Msg(0, "Invalid total amount")>>]
         @@ [score |-> 0]
    ELSE
      LET calculatedSubtotal == SumAmounts(data.items)
          calculatedTotal == calculatedSubtotal + gstTotal(data)
          subtotalDiff == Abs(calculatedSubtotal - data.subtotal)
          totalDiff == Abs(calculatedTotal - data.totalAmount)
          bySubtotal ==
            IF subtotalDiff <= 1
              THEN NoFindings @@ [score |-> 95]
              ELSE IF subtotalDiff <= 10
                THEN [NoFindings EXCEPT
                        !.warnings = <<Msg(0, "Subtotal mismatch")>>]
                     @@ [score |-> 75]
                ELSE [NoFindings EXCEPT
                        !.errors = <<Msg(0, "Significant subtotal mismatch")>>]
                     @@ [score |-> 40]
      IN [bySubtotal EXCEPT
            !.score = BumpForTotal(@, subtotalDiff, totalDiff),
            !.warnings = IF totalDiff > 10
                           THEN @ \o <<Msg(0, "Total amount mismatch")>>
                           ELSE @]

\* a missing hsnCode costs as much as an invalid unit price
ItemFindings_HsnCosts15(item, index, acc) ==
  LET a1 == IF item.name = ""
              THEN [acc EXCEPT !.errors = @ \o <<Msg(index, "Name is missing")>>,
                               !.score = @ - 20]
              ELSE acc
      a2 == IF item.quantity <= 0
              THEN [a1 EXCEPT !.errors = @ \o <<Msg(index, "Invalid quantity")>>,
                              !.score = @ - 15]
              ELSE a1
      a3 == IF item.unitPrice = 0 \/ item.unitPrice < 0
              THEN [a2 EXCEPT !.errors = @ \o <<Msg(index, "Invalid unit price")>>,
                              !.score = @ - 15]
              ELSE a2
      a4 == IF item.hsnCode = ""
              THEN [a3 EXCEPT !.warnings = @ \o <<Msg(index, "HSN code missing")>>,
                              !.score = @ - 15]
              ELSE a3
  IN IF Abs(item.quantity * item.unitPrice - item.amount) > 1
       THEN [a4 EXCEPT
               !.warnings = @ \o <<Msg(index, "Amount calculation mismatch")>>,
               !.score = @ - 10]
       ELSE a4

\* lines 305-329: the forEach callback on one item, acc the running
\* itemScore with the errors and warnings pushed so far
ItemFindings(item, index, acc) ==
  LET a1 == IF item.name = ""
              THEN [acc EXCEPT !.errors = @ \o <<Msg(index, "Name is missing")>>,
                               !.score = @ - 20]
              ELSE acc
      a2 == IF item.quantity <= 0
              THEN [a1 EXCEPT !.errors = @ \o <<Msg(index, "Invalid quantity")>>,
                              !.score = @ - 15]
              ELSE a1
      a3 == IF item.unitPrice = 0 \/ item.unitPrice < 0
              THEN [a2 EXCEPT !.errors = @ \o <<Msg(index, "Invalid unit price")>>,
                              !.score = @ - 15]
              ELSE a2
      a4 == IF item.hsnCode = ""
              THEN [a3 EXCEPT !.warnings = @ \o <<Msg(index, "HSN code missing")>>,
                              !.score = @ - 5]
              ELSE a3
  IN IF Abs(item.quantity * item.unitPrice - item.amount) > 1
       THEN [a4 EXCEPT
               !.warnings = @ \o <<Msg(index, "Amount calculation mismatch")>>,
               !.score = @ - 10]
       ELSE a4

RECURSIVE ForEachItem(_, _, _)
ForEachItem(items, index, acc) ==
  IF index > Len(items)
    THEN acc
    ELSE ForEachItem(items, index + 1, ItemFindings(items[index], index, acc))

\* lines 299-331
ValidateItems(data) ==
  IF Len(data.items) = 0
    THEN [NoFindings EXCEPT !.errors = <<Msg(0, "No line items found")>>]
         @@ [score |-> 0]
    ELSE LET done == ForEachItem(data.items, 1, NoFindings @@ [score |-> 100])
         IN [done EXCEPT !.score = Max(0, @)]

hasCGSTSGST(data) == data.cgst > 0 \/ data.sgst > 0
hasIGST(data) == data.igst > 0

\* lines 333-346
ValidateGST(data) ==
  LET noGst ==
        IF ~(gstTotal(data) > 0)
          THEN [NoFindings EXCEPT
                  !.warnings = <<Msg(0, "No GST amount found")>>,
                  !.suggestions = <<Msg(0, "check if GST amounts were visible")>>]
          ELSE NoFindings
  IN IF hasCGSTSGST(data) /\ hasIGST(data)
       THEN [noGst EXCEPT
               !.warnings = @ \o <<Msg(0, "Both CGST/SGST and IGST present")>>,
               !.suggestions = @ \o <<Msg(0, "one or the other")>>]
       ELSE noGst

\* lines 348-375
\* the GSTIN block with 30 for a missing GSTIN too
ValidateGSTIN_MissingScores30(data) ==
  IF data.supplierGSTIN = ""
    THEN [NoFindings EXCEPT
            !.warnings = <<Msg(0, "Supplier GSTIN not found")>>,
            !.suggestions = <<Msg(0, "GSTIN is required")>>]
         @@ [score |-> 30]
    ELSE IF validateGSTINFormat(data.supplierGSTIN).valid
      THEN NoFindings @@ [score |-> 95]
      ELSE [NoFindings EXCEPT
              !.warnings = <<Msg(0, "Invalid GSTIN format")>>,
              !.suggestions = <<Msg(0, "Verify GSTIN manually")>>]
           @@ [score |-> 30]

ValidateGSTIN(data) ==
  IF data.supplierGSTIN # ""
    THEN LET gstinValidation == validateGSTINFormat(data.supplierGSTIN)
             isSameState == companyStateCode = gstinValidation.stateCode
         IN IF gstinValidation.valid
              THEN [NoFindings EXCEPT
                      !.warnings =
                        IF isSameState /\ hasIGST(data) /\ ~hasCGSTSGST(data)
                          THEN <<Msg(0, "Intra-state should use CGST+SGST")>>
                          ELSE IF ~isSameState /\ hasCGSTSGST(data)
                                  /\ ~hasIGST(data)
                            THEN <<Msg(0, "Inter-state should use IGST")>>
                            ELSE <<>>]
                   @@ [score |-> 95]
              ELSE [NoFindings EXCEPT
                      !.warnings = <<Msg(0, "Invalid GSTIN format")>>,
                      !.suggestions = <<Msg(0, "Verify GSTIN manually")>>]
                   @@ [score |-> 30]
    ELSE [NoFindings EXCEPT
            !.warnings = <<Msg(0, "Supplier GSTIN not found")>>,
            !.suggestions = <<Msg(0, "GSTIN is required")>>]
         @@ [score |-> 0]

\* The weighted sum, in hundredths.
WeightedSum(fc) ==
  20 * fc.invoiceNumber + 35 * fc.amounts + 30 * fc.items + 15 * fc.gstin

\* The sum is computed in IEEE-754 doubles. Over every combination of field
\* scores the function can produce, the double differs from the exact sum
\* across a rounding boundary in one case: 90 * 0.35 is 31.499999999999996.
DoubleFallsBelowHalf(fc) ==
  /\ fc.invoiceNumber = 0 /\ fc.amounts = 90
  /\ fc.items = 0 /\ fc.gstin = 0

\* lines 377-383: Math.round of the weighted sum (halves go up)
OverallConfidence(fc) ==
  IF DoubleFallsBelowHalf(fc)
    THEN WeightedSum(fc) \div 100
    ELSE (WeightedSum(fc) + 50) \div 100

\* the auto-approval decision without its amounts condition
CanAutoApprove_WithoutAmounts(data, errors, overallConfidence, fc) ==
  /\ Len(errors) = 0
  /\ overallConfidence >= 85
  /\ data.confidence >= 85
  /\ fc.items >= 80

\* lines 385-391
CanAutoApprove(data, errors, overallConfidence, fc) ==
  /\ Len(errors) = 0
  /\ overallConfidence >= 85
  /\ data.confidence >= 85
  /\ fc.amounts >= 90
  /\ fc.items >= 80

\* lines 216-408
validateInvoiceData(data) ==
  LET number == ValidateInvoiceNumber(data)
      date == ValidateDate(data)
      supplier == ValidateSupplier(data)
      amounts == ValidateAmounts(data)
      items == ValidateItems(data)
      gst == ValidateGST(data)
      gstin == ValidateGSTIN(data)
      errors == number.errors \o date.errors \o supplier.errors
                  \o amounts.errors \o items.errors \o gst.errors
                  \o gstin.errors
      warnings == number.warnings \o date.warnings \o supplier.warnings
                    \o amounts.warnings \o items.warnings \o gst.warnings
                    \o gstin.warnings
      found == number.suggestions \o date.suggestions \o supplier.suggestions
                 \o amounts.suggestions \o items.suggestions
                 \o gst.suggestions \o gstin.suggestions
      fieldConfidence == [invoiceNumber |-> number.score,
                          amounts |-> amounts.score,
                          items |-> items.score,
                          gstin |-> gstin.score]
      overallConfidence == OverallConfidence(fieldConfidence)
      canAutoApprove ==
        CanAutoApprove(data, errors, overallConfidence, fieldConfidence)
  IN [valid |-> Len(errors) = 0,
      errors |-> errors,
      warnings |-> warnings,
      suggestions |->
        found \o (IF canAutoApprove
                    THEN <<Msg(0, "meets criteria for auto-approval")>>
                    ELSE IF Len(errors) = 0
                      THEN <<Msg(0, "Manual review recommended")>>
                      ELSE <<>>),
      canAutoApprove |-> canAutoApprove,
      confidenceScore |-> overallConfidence,
      fieldConfidence |-> fieldConfidence]

\* A record arrives from the extraction.
ValidateInit ==
  /\ QueueIdle
  /\ \E n \in InvoiceNumbers, h \in Headings, g \in SupplierGSTINs,
        st \in Subtotals, tx \in Taxes, tot \in TotalAmounts,
        its \in ItemLists, c \in Confidences :
        record = ExtractedInvoiceData(n, h, g, st, tx, tot, its, c)
  /\ validation = NoValidation
  /\ corrections = NoCorrections
  /\ TemplateIdle
  /\ BillIdle

\* validateInvoiceData(record) is called and returns.
ValidateInvoice ==
  /\ validation = NoValidation
  /\ validation' = <<validateInvoiceData(record)>>
  /\ UNCHANGED <<record, corrections, queueVars, templateVars, billVars>>

\* a value that an `a && b` test takes as true
TruthyNumber(n) == n # 0

\* The first test of generateCorrectionSuggestions and its loop over the
\* items evaluate `prisma`, a name ocrService.ts neither imports nor
\* declares: the function rejects with a ReferenceError there.
ReachesPrisma(data, result) ==
  \/ /\ data.supplierGSTIN # ""
     /\ TruthyNumber(result.fieldConfidence.gstin)
     /\ result.fieldConfidence.gstin < 80
  \/ \E i \in 1..Len(data.items) : data.items[i].hsnCode = ""

\* lines 441-456
AmountCorrections(data, result) ==
  LET calculatedTotal == SumAmounts(data.items) + gstTotal(data)
  IN  IF /\ TruthyNumber(result.fieldConfidence.amounts)
         /\ result.fieldConfidence.amounts < 90
         /\ Abs(calculatedTotal - data.totalAmount) > 1
        THEN << [field |-> "totalAmount",
                 originalValue |-> data.totalAmount,
                 suggestedValue |-> calculatedTotal,
                 confidence |-> 85] >>
        ELSE <<>>

\* how the promise of generateCorrectionSuggestions(data, result) settles
generateCorrectionSuggestions(data, result) ==
  IF ReachesPrisma(data, result)
    THEN [rejected |-> TRUE, suggestions |-> <<>>]
    ELSE [rejected |-> FALSE, suggestions |-> AmountCorrections(data, result)]

\* generateCorrectionSuggestions(record, validation) is called and settles;
\* it assigns to neither argument.
GenerateCorrectionSuggestions ==
  /\ validation # NoValidation
  /\ corrections = NoCorrections
  /\ corrections' = <<generateCorrectionSuggestions(record, validation[1])>>
  /\ UNCHANGED <<record, validation, queueVars, templateVars, billVars>>

ValidateNext == ValidateInvoice \/ GenerateCorrectionSuggestions

ValidateSpec == ValidateInit /\ [][ValidateNext]_vars

Validated == validation # NoValidation

\* the ValidationResult returned
Result == validation[1]

\* ------------------------------------------------------------------------
\* C13: canAutoApprove is true exactly when errors is empty, the aggregate
\* confidence is at least 85, the record's extraction confidence is at least
\* 85, the amounts score is at least 90 and the items score is at least 80;
\* in particular canAutoApprove implies that errors is empty.
C13_AutoApproveIffFiveConditions ==
  Validated =>
    /\ Result.canAutoApprove <=>
         /\ Result.errors = <<>>
         /\ Result.confidenceScore >= 85
         /\ record.confidence >= 85
         /\ Result.fieldConfidence.amounts >= 90
         /\ Result.fieldConfidence.items >= 80
    /\ Result.canAutoApprove => Result.errors = <<>>

\* A record was approved, and it carries warnings.
C13_Witness ==
  /\ Validated
  /\ Result.canAutoApprove
  /\ Result.warnings # <<>>

\* ------------------------------------------------------------------------
\* C14: a record whose declared total differs by more than 10 from the sum
\* of its line-item amounts plus its tax components gets an amounts score of
\* at most 40 and a hard error, and is not auto-approved.
C14_TotalMismatchIsHardError ==
  (Validated /\
   Abs(SumAmounts(record.items) + gstTotal(record) - record.totalAmount) > 10)
    => /\ Result.fieldConfidence.amounts <= 40
       /\ Result.errors # <<>>
       /\ ~Result.canAutoApprove

\* ------------------------------------------------------------------------
\* the subtotal difference d and the grand-total difference of the record
C15_d == Abs(SumAmounts(record.items) - record.subtotal)
C15_totalDiff ==
  Abs(SumAmounts(record.items) + gstTotal(record) - record.totalAmount)

HasMsg(list, text) == \E i \in 1..Len(list) : list[i] = Msg(0, text)

\* C15 as claimed: with a positive total, d <= 1 gives 95, 1 < d <= 10 gives
\* 75 with a warning, d > 10 gives at most 40 with a hard error.
C15_ScoreFollowsSubtotalOnly ==
  (Validated /\ record.totalAmount > 0) =>
    /\ C15_d <= 1 => Result.fieldConfidence.amounts = 95
    /\ (1 < C15_d /\ C15_d <= 10) =>
         /\ Result.fieldConfidence.amounts = 75
         /\ HasMsg(Result.warnings, "Subtotal mismatch")
    /\ C15_d > 10 =>
         /\ Result.fieldConfidence.amounts <= 40
         /\ HasMsg(Result.errors, "Significant subtotal mismatch")

\* C15 as amended: d <= 1 gives 95; 1 < d <= 10 gives 75 with a warning;
\* d > 10 gives 40 with a hard error; and whatever d is, a grand total within
\* one unit of the recomputed one raises the score to 90, the warning or hard
\* error staying.
C15_AmountsScore ==
  (Validated /\ record.totalAmount > 0) =>
    /\ C15_d <= 1 => Result.fieldConfidence.amounts = 95
    /\ (1 < C15_d /\ C15_d <= 10) =>
         /\ Result.fieldConfidence.amounts =
              IF C15_totalDiff <= 1 THEN 90 ELSE 75
         /\ HasMsg(Result.warnings, "Subtotal mismatch")
         /\ ~HasMsg(Result.errors, "Significant subtotal mismatch")
    /\ C15_d > 10 =>
         /\ Result.fieldConfidence.amounts =
              IF C15_totalDiff <= 1 THEN 90 ELSE 40
         /\ HasMsg(Result.errors, "Significant subtotal mismatch")

\* A subtotal off by more than 10 next to a matching grand total: score 90
\* with the hard error.
C15_Witness ==
  /\ Validated
  /\ record.totalAmount > 0
  /\ C15_d > 10
  /\ C15_totalDiff <= 1
  /\ Result.fieldConfidence.amounts = 90
  /\ HasMsg(Result.errors, "Significant subtotal mismatch")

\* ------------------------------------------------------------------------
\* C16: the aggregate confidence equals the weighted sum 0.20 identifier +
\* 0.35 amounts + 0.30 items + 0.15 taxId of the four field scores, rounded
\* (a half going up), and lies in 0..100; each field score is an integer in
\* 0..100.
C16_EqualsRoundedWeightedSum ==
  Validated =>
    LET fc == Result.fieldConfidence
    IN /\ Result.confidenceScore = (WeightedSum(fc) + 50) \div 100
       /\ Result.confidenceScore \in 0..100
       /\ fc.invoiceNumber \in 0..100
       /\ fc.amounts \in 0..100
       /\ fc.items \in 0..100
       /\ fc.gstin \in 0..100

\* What the code keeps of C16 for every record: the aggregate is an integer
\* of 0..100 no further than one half from the weighted sum, and the field
\* scores are integers of 0..100.
C16_WithinOneHalf ==
  Validated =>
    LET fc == Result.fieldConfidence
    IN /\ Abs(100 * Result.confidenceScore - WeightedSum(fc)) <= 50
       /\ Result.confidenceScore \in 0..100
       /\ fc.invoiceNumber \in 0..100
       /\ fc.amounts \in 0..100
       /\ fc.items \in 0..100
       /\ fc.gstin \in 0..100

\* ------------------------------------------------------------------------
\* the deductions C17 lists, for one line item
C17_Deduction(item) ==
  (IF item.name = "" THEN 20 ELSE 0)
  + (IF item.quantity <= 0 THEN 15 ELSE 0)
  + (IF item.unitPrice <= 0 THEN 15 ELSE 0)
  + (IF item.hsnCode = "" THEN 5 ELSE 0)
  + (IF Abs(item.quantity * item.unitPrice - item.amount) > 1 THEN 10 ELSE 0)

\* the hard errors C17 allows for one line item
C17_HardErrors(item) ==
  (IF item.name = "" THEN 1 ELSE 0)
  + (IF item.quantity <= 0 THEN 1 ELSE 0)
  + (IF item.unitPrice <= 0 THEN 1 ELSE 0)

RECURSIVE C17_Deductions(_)
C17_Deductions(items) ==
  IF items = <<>> THEN 0
  ELSE C17_Deduction(Head(items)) + C17_Deductions(Tail(items))

RECURSIVE C17_AllHardErrors(_)
C17_AllHardErrors(items) ==
  IF items = <<>> THEN 0
  ELSE C17_HardErrors(Head(items)) + C17_AllHardErrors(Tail(items))

\* the entries of a list that name a line item
ItemMsgs(list) == {i \in 1..Len(list) : list[i][1] > 0}

\* C17: with at least one line item the items score is max(0, 100 - the sum
\* of the deductions 20 / 15 / 15 / 5 / 10); a missing classification code
\* and a line-amount mismatch add a warning each and no hard error; with no
\* line item the score is 0 and there is a hard error.
C17_ItemsScore ==
  Validated =>
    IF Len(record.items) >= 1
      THEN /\ Result.fieldConfidence.items =
                Max(0, 100 - C17_Deductions(record.items))
           /\ Cardinality(ItemMsgs(Result.errors)) =
                C17_AllHardErrors(record.items)
           /\ \A i \in ItemMsgs(Result.errors) :
                Result.errors[i][2] \in
                  {"Name is missing", "Invalid quantity", "Invalid unit price"}
           /\ \A k \in 1..Len(record.items) :
                /\ record.items[k].hsnCode = "" <=>
                     \E i \in ItemMsgs(Result.warnings) :
                       Result.warnings[i] = Msg(k, "HSN code missing")
                /\ Abs(record.items[k].quantity * record.items[k].unitPrice
                         - record.items[k].amount) > 1 <=>
                     \E i \in ItemMsgs(Result.warnings) :
                       Result.warnings[i] = Msg(k, "Amount calculation mismatch")
      ELSE /\ Result.fieldConfidence.items = 0
           /\ HasMsg(Result.errors, "No line items found")

\* The deductions of two line items pass 100 and the score stops at 0.
C17_Witness ==
  /\ Validated
  /\ Len(record.items) = 2
  /\ C17_Deductions(record.items) > 100
  /\ Result.fieldConfidence.items = 0

\* ========================================================================
\* autoReorderService.ts: InvoiceTemplateService (templateService)
\*
\* One supplier; every learnFromInvoice call is made for it.  The database
\* answers every query (the supplier row exists); the cache is the key
\* invoice:template:<supplierId> of the exported redisClient.  A nullable
\* template is NoTemplate or <<template>>.  Averages are exact fractions
\* <<numerator, denominator>> in lowest terms where the code has doubles.
\* ========================================================================
maxSize == 20

supplierId == "supplier-1"

\* the records handed to learnFromInvoice
LearnedInvoices ==
  { ExtractedInvoiceData("INV-2024-001",
       [invoiceDate |-> "2026-10-20", supplierName |-> "Acme Traders"],
       "29AAAAA0000A1Z5", 20, [cgst |-> 2, sgst |-> 2, igst |-> 0], 24,
       << [name |-> "Widget", hsnCode |-> "8471", quantity |-> 1,
           unitPrice |-> 10, amount |-> 10],
          [name |-> "Bolt", hsnCode |-> "", quantity |-> 1,
           unitPrice |-> 10, amount |-> 10] >>, 85),
    ExtractedInvoiceData("BILL-A",
       [invoiceDate |-> "2026-10-20", supplierName |-> "Acme Traders"],
       "29AAAAA0000A1Z5", 96, [cgst |-> 0, sgst |-> 0, igst |-> 4], 100,
       << [name |-> "Gear", hsnCode |-> "3926", quantity |-> 2,
           unitPrice |-> 48, amount |-> 96] >>, 85) }

RECURSIVE GCD(_, _)
GCD(a, b) == IF b = 0 THEN a ELSE GCD(b, a % b)

\* the fraction n / d in lowest terms
Fraction(n, d) == <<n \div GCD(n, d), d \div GCD(n, d)>>

\* (avg * count + value) / (count + 1)
MovingAverage(avg, count, value) ==
  Fraction(avg[1] * count + value * avg[2], avg[2] * (count + 1))

\* JSON.parse(JSON.stringify(template)), and the same conversion made by a
\* Json column: a Date comes back as its ISO string, numbers and strings
\* as they were.
JSONstringify(template) ==
  [template EXCEPT !.statistics.lastUpdated = "ISO string"]

JSONparse(text) == text

\* invoiceNumber.replace(/\d+/g, ...).replace(/[.*+?^${}()|[\]\\]/g, '\\$&')
\* on the invoice numbers of LearnedInvoices: the second replace also
\* escapes the backslash and the braces the first one wrote.
extractInvoiceNumberPattern(invoiceNumber) ==
  CASE invoiceNumber = "INV-2024-001" -> "INV-\\\\d\\{4\\}-\\\\d\\{3\\}"
    [] invoiceNumber = "#7" -> "#\\\\d\\{1\\}"
    [] invoiceNumber = "BILL-A" -> "BILL-A"
    [] OTHER -> invoiceNumber

detectGSTType(data) ==
  LET hasCGSTSGSTOf == data.cgst > 0 \/ data.sgst > 0
      hasIGSTOf == data.igst > 0
  IN  IF hasCGSTSGSTOf /\ hasIGSTOf THEN "BOTH"
      ELSE IF hasCGSTSGSTOf THEN "CGST_SGST"
      ELSE IF hasIGSTOf THEN "IGST"
      ELSE "CGST_SGST"

\* items.map(i => i.hsnCode), items.map(i => i.name)
MapHsnCode(items) == [i \in 1..Len(items) |-> items[i].hsnCode]
MapName(items) == [i \in 1..Len(items) |-> items[i].name]

\* a non-empty string is truthy
Truthy(val) == val # ""
FilterBoolean(values) == SelectSeq(values, Truthy)

\* A property key that is a canonical array index, as a number; -1 for any
\* other key.  (The HSN codes of LearnedInvoices are such keys.)
ArrayIndex(key) ==
  CASE key = "8471" -> 8471
    [] key = "3926" -> 3926
    [] OTHER -> -1

Count(values, val) == Cardinality({i \in 1..Len(values) : values[i] = val})

RECURSIVE FirstOccurrences(_)
FirstOccurrences(values) ==
  IF values = <<>> THEN <<>>
  ELSE LET front == FirstOccurrences(SubSeq(values, 1, Len(values) - 1))
           last == values[Len(values)]
       IN  IF last \in SeqToSet(front) THEN front ELSE Append(front, last)

RECURSIVE Ascending(_)
Ascending(keys) ==
  IF keys = {} THEN <<>>
  ELSE LET least == CHOOSE k \in keys :
                      \A other \in keys : ArrayIndex(k) <= ArrayIndex(other)
       IN  <<least>> \o Ascending(keys \ {least})

\* Object.entries order: array-index keys in ascending numeric order, then
\* the other keys in the order they were created
IsArrayIndex(key) == ArrayIndex(key) >= 0
IsOtherKey(key) == ArrayIndex(key) < 0
ObjectKeys(counted) ==
  Ascending({k \in SeqToSet(counted) : IsArrayIndex(k)})
    \o SelectSeq(FirstOccurrences(counted), IsOtherKey)

\* the stable sort((a, b) => b - a) on the counts: keys of count f, then
\* the keys of every smaller count, each group in the order it had
RECURSIVE SortByFrequency(_, _, _)
SortByFrequency(keys, counted, f) ==
  IF f = 0 THEN <<>>
  ELSE LET HasCount(k) == Count(counted, k) = f
       IN  SelectSeq(keys, HasCount) \o SortByFrequency(keys, counted, f - 1)

updateCommonValues(existing, newValues) ==
  LET counted == existing \o SelectSeq(newValues, Truthy)
      sorted == SortByFrequency(ObjectKeys(counted), counted, Len(counted))
  IN  SliceFrom0(sorted, maxSize)

\* The body of learnFromInvoice between its two awaits: the template it
\* hands to saveTemplate, from what getTemplate resolved with.
NewTemplate(invoiceData, wasAccurate) ==
  [supplierId |-> supplierId,
   supplierName |-> invoiceData.supplierName,
   patterns |->
     [invoiceNumberFormat |->
        extractInvoiceNumberPattern(invoiceData.invoiceNumber),
      dateFormats |-> <<>>,
      commonHSNCodes |-> <<>>,
      commonItemNames |-> <<>>,
      avgItemCount |-> Fraction(Len(invoiceData.items), 1),
      avgTotalAmount |-> Fraction(invoiceData.totalAmount, 1),
      gstType |-> detectGSTType(invoiceData)],
   statistics |->
     [totalInvoicesProcessed |-> 1,
      lastUpdated |-> "Date",
      accuracyRate |-> Fraction(IF wasAccurate THEN 100 ELSE 0, 1)]]

UpdatedTemplate(template, invoiceData, wasAccurate) ==
  LET count == template.statistics.totalInvoicesProcessed
  IN  [template EXCEPT
         !.patterns.commonHSNCodes =
            updateCommonValues(@, FilterBoolean(MapHsnCode(invoiceData.items))),
         !.patterns.commonItemNames =
            updateCommonValues(@, MapName(invoiceData.items)),
         !.patterns.avgItemCount =
            MovingAverage(@, count, Len(invoiceData.items)),
         !.patterns.avgTotalAmount =
            MovingAverage(@, count, invoiceData.totalAmount),
         !.statistics.accuracyRate =
            MovingAverage(@, count, IF wasAccurate THEN 100 ELSE 0),
         !.statistics.totalInvoicesProcessed = count + 1,
         !.statistics.lastUpdated = "Date"]

LearnedTemplate(got, invoiceData, wasAccurate) ==
  IF got = NoTemplate THEN NewTemplate(invoiceData, wasAccurate)
  ELSE UpdatedTemplate(got[1], invoiceData, wasAccurate)

\* new RegExp(pattern).test(text) for the patterns of
\* extractInvoiceNumberPattern and the invoice numbers of LearnedInvoices.
\* "BILL-A" has no special character and matches a text that contains it;
\* in the other patterns `\\d` is a backslash followed by d and `\{` a
\* brace, which no invoice number of the model contains.
RegExpTest(pattern, text) ==
  CASE pattern = "BILL-A" -> text = "BILL-A"
    [] OTHER -> FALSE

\* String.prototype.toLowerCase and includes on the item names of the
\* model, none of which is part of another
ToLowerCase(name) ==
  CASE name = "Widget" -> "widget"
    [] name = "Bolt" -> "bolt"
    [] name = "Gear" -> "gear"
    [] OTHER -> name
Includes(text, part) == part = "" \/ text = part

\* Math.abs(value - avg) > avg * 0.5 for the fraction avg
DiffersByMoreThanHalf(value, avg) ==
  2 * Abs(value * avg[2] - avg[1]) > avg[1]

\* (Math.abs(value - avg) / avg) * 100 > 50: a division by zero gives
\* Infinity, or NaN (which is not > 50) for 0 / 0
PercentOver50(value, avg) ==
  IF avg[1] = 0 THEN value # 0
  ELSE 100 * Abs(value * avg[2] - avg[1]) > 50 * avg[1]

\* accuracyRate < 70
Below(rate, limit) == rate[1] < limit * rate[2]

\* the rules of validateAgainstTemplate, in the order it evaluates them
Rules == <<"invoiceNumberFormat", "itemCount", "totalAmount", "gstType",
           "hsnCodes", "itemNames">>

Penalty(rule) ==
  CASE rule = "invoiceNumberFormat" -> 10
    [] rule = "itemCount" -> 5
    [] rule = "totalAmount" -> 15
    [] rule = "gstType" -> 10
    [] rule = "hsnCodes" -> 10
    [] rule = "itemNames" -> 15

Fires(rule, template, invoiceData) ==
  LET invoiceHSNCodes == FilterBoolean(MapHsnCode(invoiceData.items))
      knownHSNs == template.patterns.commonHSNCodes
      invoiceItemNames == MapName(invoiceData.items)
      knownItems == template.patterns.commonItemNames
  IN  CASE rule = "invoiceNumberFormat" ->
             /\ template.patterns.invoiceNumberFormat # ""
             /\ ~RegExpTest(template.patterns.invoiceNumberFormat,
                            invoiceData.invoiceNumber)
        [] rule = "itemCount" ->
             DiffersByMoreThanHalf(Len(invoiceData.items),
                                   template.patterns.avgItemCount)
        [] rule = "totalAmount" ->
             PercentOver50(invoiceData.totalAmount,
                           template.patterns.avgTotalAmount)
        [] rule = "gstType" ->
             /\ template.patterns.gstType # "BOTH"
             /\ detectGSTType(invoiceData) # template.patterns.gstType
        [] rule = "hsnCodes" ->
             /\ Len(knownHSNs) > 0
             /\ ~\E i \in 1..Len(invoiceHSNCodes) :
                   invoiceHSNCodes[i] \in SeqToSet(knownHSNs)
        [] rule = "itemNames" ->
             /\ Len(knownItems) > 0
             /\ ~\E i \in 1..Len(invoiceItemNames), k \in 1..Len(knownItems) :
                   \/ Includes(ToLowerCase(invoiceItemNames[i]),
                               ToLowerCase(knownItems[k]))
                   \/ Includes(ToLowerCase(knownItems[k]),
                               ToLowerCase(invoiceItemNames[i]))

\* anomalies, as the rules that pushed one; matchScore
RECURSIVE Anomalies(_, _, _)
Anomalies(rules, template, invoiceData) ==
  IF rules = <<>> THEN <<>>
  ELSE (IF Fires(Head(rules), template, invoiceData)
          THEN <<Head(rules)>> ELSE <<>>)
         \o Anomalies(Tail(rules), template, invoiceData)

RECURSIVE SumPenalties(_)
SumPenalties(anomalies) ==
  IF anomalies = <<>> THEN 0
  ELSE Penalty(Head(anomalies)) + SumPenalties(Tail(anomalies))

\* the value validateAgainstTemplate resolves with, from what getTemplate
\* resolved with
MatchResult(got, invoiceData) ==
  IF got = NoTemplate
    THEN [matches |-> TRUE,
          anomalies |-> <<>>,
          suggestions |-> <<"No template available for this supplier">>,
          confidence |-> 50]
    ELSE LET template == got[1]
             anomalies == Anomalies(Rules, template, invoiceData)
             matchScore == 100 - SumPenalties(anomalies)
             suggestions ==
               (IF "totalAmount" \in SeqToSet(anomalies)
                  THEN <<"Verify the total amount">> ELSE <<>>)
               \o (IF "gstType" \in SeqToSet(anomalies)
                     THEN <<"Verify GST type">> ELSE <<>>)
               \o (IF "hsnCodes" \in SeqToSet(anomalies)
                     THEN <<"This may be a new product category">> ELSE <<>>)
               \o (IF Below(template.statistics.accuracyRate, 70)
                     THEN <<"review carefully">> ELSE <<>>)
               \o (IF Len(anomalies) = 0
                     THEN <<"Invoice matches expected patterns">> ELSE <<>>)
         IN  [matches |-> Len(anomalies) = 0,
              anomalies |-> anomalies,
              suggestions |-> suggestions,
              confidence |-> Max(0, Min(100, matchScore))]

\* The calls made so far are 1 .. Called.
Called == Cardinality({c \in 1..MaxCalls : calls[c].pc # "none"})
AtAwait(c, pc) == calls[c].pc = pc

\* learnFromInvoice(invoiceData, supplierId, wasAccurate) is called: it
\* enters getTemplate, which issues redisClient.get.
InFlight == \E c \in 1..MaxCalls : calls[c].pc \notin {"none", "done"}

CallOf(op, invoiceData, wasAccurate) ==
  [op |-> op, pc |-> "get", invoiceData |-> invoiceData,
   wasAccurate |-> wasAccurate, overlaps |-> InFlight, got |-> NoTemplate,
   template |-> NoTemplate, result |-> NoResult]

LearnFromInvoice ==
  /\ Called < MaxCalls
  /\ \E invoiceData \in LearnedInvoices, wasAccurate \in BOOLEAN :
       calls' = [calls EXCEPT ![Called + 1] =
                    CallOf("learn", invoiceData, wasAccurate)]
  /\ UNCHANGED <<queueVars, validateVars, billVars,
                 redisClient, connected, cached, metadata, cacheFaults>>

\* validateAgainstTemplate(invoiceData, supplierId) is called: it enters
\* getTemplate, which issues redisClient.get.
ValidateAgainstTemplate ==
  /\ Called < MaxCalls
  /\ \E invoiceData \in LearnedInvoices :
       calls' = [calls EXCEPT ![Called + 1] =
                    CallOf("match", invoiceData, FALSE)]
  /\ UNCHANGED <<queueVars, validateVars, billVars,
                 redisClient, connected, cached, metadata, cacheFaults>>

\* getTemplate resolves with `got`.  learnFromInvoice builds its template,
\* enters saveTemplate and issues prisma.supplier.update;
\* validateAgainstTemplate runs to its return.
GetTemplateResolves(c, got) ==
  IF calls[c].op = "learn"
    THEN calls' = [calls EXCEPT
                     ![c].got = got,
                     ![c].template =
                        <<LearnedTemplate(got, calls[c].invoiceData,
                                          calls[c].wasAccurate)>>,
                     ![c].pc = "update"]
    ELSE calls' = [calls EXCEPT
                     ![c].got = got,
                     ![c].result =
                        <<MatchResult(got, calls[c].invoiceData)>>,
                     ![c].pc = "done"]

\* a command of the real client settles with a reply only while the server
\* can be reached (enableOfflineQueue is false)
Replies == redisClient = "redis" /\ connected

\* `await redisClient.get(key)` settles.
CacheGetReturns(c) ==
  /\ AtAwait(c, "get")
  /\ IF redisClient = "redis" /\ ~connected
       THEN \* rejected: caught in getTemplate, which returns null
            /\ GetTemplateResolves(c, NoTemplate)
            /\ cacheFaults' = cacheFaults + 1
       ELSE IF redisClient = "redis" /\ cached # NoTemplate
       THEN /\ GetTemplateResolves(c, <<JSONparse(cached[1])>>)
            /\ UNCHANGED cacheFaults
       ELSE \* a miss, or mockRedis.get: prisma.supplier.findUnique is issued
            /\ calls' = [calls EXCEPT ![c].pc = "findUnique"]
            /\ UNCHANGED cacheFaults
  /\ UNCHANGED <<queueVars, validateVars, billVars,
                 redisClient, connected, cached, metadata>>

\* `await prisma.supplier.findUnique(...)` settles.
FindUniqueReturns(c) ==
  /\ AtAwait(c, "findUnique")
  /\ IF metadata = NoTemplate
       THEN /\ GetTemplateResolves(c, NoTemplate)
            /\ UNCHANGED cacheFaults
       ELSE IF redisClient = "mockRedis"
       THEN \* mockRedis has no setex: the call throws a TypeError, caught
            /\ GetTemplateResolves(c, NoTemplate)
            /\ cacheFaults' = cacheFaults + 1
       ELSE \* redisClient.setex is issued
            /\ calls' = [calls EXCEPT ![c].got = metadata,
                                        ![c].pc = "setex"]
            /\ UNCHANGED cacheFaults
  /\ UNCHANGED <<queueVars, validateVars, billVars,
                 redisClient, connected, cached, metadata>>

\* `await redisClient.setex(key, 86400, JSON.stringify(template))` of
\* getTemplate settles.
CacheFillReturns(c) ==
  /\ AtAwait(c, "setex")
  /\ IF Replies
       THEN /\ cached' = <<JSONstringify(calls[c].got[1])>>
            /\ GetTemplateResolves(c, calls[c].got)
            /\ UNCHANGED cacheFaults
       ELSE /\ GetTemplateResolves(c, NoTemplate)
            /\ cacheFaults' = cacheFaults + 1
            /\ UNCHANGED cached
  /\ UNCHANGED <<queueVars, validateVars, billVars, redisClient, connected, metadata>>

\* `await prisma.supplier.update(...)` of saveTemplate settles; it then
\* calls redisClient.setex.
SupplierUpdateReturns(c) ==
  /\ AtAwait(c, "update")
  /\ metadata' = <<JSONstringify(calls[c].template[1])>>
  /\ IF redisClient = "mockRedis"
       THEN \* TypeError caught in saveTemplate; learnFromInvoice returns
            /\ calls' = [calls EXCEPT ![c].pc = "done"]
            /\ cacheFaults' = cacheFaults + 1
       ELSE /\ calls' = [calls EXCEPT ![c].pc = "save"]
            /\ UNCHANGED cacheFaults
  /\ UNCHANGED <<queueVars, validateVars, billVars, redisClient, connected, cached>>

\* `await redisClient.setex(...)` of saveTemplate settles; learnFromInvoice
\* returns.
CacheSaveReturns(c) ==
  /\ AtAwait(c, "save")
  /\ calls' = [calls EXCEPT ![c].pc = "done"]
  /\ IF Replies
       THEN /\ cached' = <<JSONstringify(calls[c].template[1])>>
            /\ UNCHANGED cacheFaults
       ELSE /\ cacheFaults' = cacheFaults + 1
            /\ UNCHANGED cached
  /\ UNCHANGED <<queueVars, validateVars, billVars, redisClient, connected, metadata>>

\* The Redis server goes away and comes back; the key outlives its TTL of
\* 86400 seconds.
RedisDisconnects ==
  /\ redisClient = "redis"
  /\ connected
  /\ connected' = FALSE
  /\ UNCHANGED <<queueVars, validateVars, billVars,
                 redisClient, cached, metadata, calls, cacheFaults>>

RedisReconnects ==
  /\ redisClient = "redis"
  /\ ~connected
  /\ connected' = TRUE
  /\ UNCHANGED <<queueVars, validateVars, billVars,
                 redisClient, cached, metadata, calls, cacheFaults>>

KeyExpires ==
  /\ cached # NoTemplate
  /\ cached' = NoTemplate
  /\ UNCHANGED <<queueVars, validateVars, billVars,
                 redisClient, connected, metadata, calls, cacheFaults>>

\* config/redis.ts has exported the Redis client, or mockRedis.
TemplateInit ==
  /\ QueueIdle
  /\ ValidateIdle
  /\ redisClient \in {"redis", "mockRedis"}
  /\ connected = TRUE
  /\ cached = NoTemplate
  /\ metadata = NoTemplate
  /\ calls = [c \in 1..MaxCalls |-> NoCall]
  /\ cacheFaults = 0
  /\ BillIdle

TemplateNext ==
  \/ LearnFromInvoice
  \/ ValidateAgainstTemplate
  \/ \E c \in 1..MaxCalls : CacheGetReturns(c)
  \/ \E c \in 1..MaxCalls : FindUniqueReturns(c)
  \/ \E c \in 1..MaxCalls : CacheFillReturns(c)
  \/ \E c \in 1..MaxCalls : SupplierUpdateReturns(c)
  \/ \E c \in 1..MaxCalls : CacheSaveReturns(c)
  \/ RedisDisconnects
  \/ RedisReconnects
  \/ KeyExpires

TemplateSpec == TemplateInit /\ [][TemplateNext]_vars

\* the calls that have returned, and what they were given
Returned ==
  {c \in 1..MaxCalls : calls[c].op = "learn" /\ calls[c].pc = "done"}
AllReturned == \A c \in 1..MaxCalls : calls[c].pc \in {"none", "done"}

RECURSIVE SumOver(_, _)
SumOver(returned, field) ==
  IF returned = {} THEN 0
  ELSE LET c == CHOOSE x \in returned : TRUE
           data == calls[c].invoiceData
           value == IF field = "items" THEN Len(data.items)
                                       ELSE data.totalAmount
       IN  value + SumOver(returned \ {c}, field)

\* getTemplate, entered by call c, resolves in this step
Resolves(c) ==
  /\ calls[c].pc \in {"get", "findUnique", "setex"}
  /\ calls'[c].pc \in {"update", "done"}

\* ------------------------------------------------------------------------
\* C18: two learnFromInvoice calls for the same supplier, made while the
\* cache works throughout, never lose an update: once both have returned,
\* the stored template counts 2 processed invoices and its avgItemCount and
\* avgTotalAmount are the means over both records.
C18_NoLostUpdate ==
  (/\ redisClient = "redis"
   /\ cacheFaults = 0
   /\ AllReturned
   /\ Cardinality(Returned) = 2)
  => /\ metadata # NoTemplate
     /\ metadata[1].statistics.totalInvoicesProcessed = 2
     /\ metadata[1].patterns.avgItemCount
          = Fraction(SumOver(Returned, "items"), 2)
     /\ metadata[1].patterns.avgTotalAmount
          = Fraction(SumOver(Returned, "totalAmount"), 2)

\* ------------------------------------------------------------------------
\* C19: getTemplate resolves with null only if the supplier row holds no
\* template, whatever the cache does (miss, failed read, failed write,
\* mockRedis in place of the client).
C19_NullOnlyIfStoreHasNone ==
  [][\A c \in 1..MaxCalls :
       (Resolves(c) /\ calls'[c].got = NoTemplate)
         => metadata = NoTemplate]_vars

\* ------------------------------------------------------------------------
\* C20: a learnFromInvoice call that finds no template for a supplier that
\* has none builds one seeded from its record: avgItemCount the number of
\* items, avgTotalAmount the total, commonHSNCodes and commonItemNames the
\* codes and names of the record's items, accuracyRate 100 or 0 as
\* wasAccurate says, totalInvoicesProcessed 1.
C20_SeededFromRecord ==
  [][\A c \in 1..MaxCalls :
       (Resolves(c) /\ calls'[c].got = NoTemplate /\ metadata = NoTemplate)
         => LET template == calls'[c].template[1]
                data == calls[c].invoiceData
            IN  /\ template.patterns.avgItemCount = <<Len(data.items), 1>>
                /\ template.patterns.avgTotalAmount = <<data.totalAmount, 1>>
                /\ SeqToSet(template.patterns.commonHSNCodes)
                     = SeqToSet(FilterBoolean(MapHsnCode(data.items)))
                /\ SeqToSet(template.patterns.commonItemNames)
                     = SeqToSet(FilterBoolean(MapName(data.items)))
                /\ template.statistics.accuracyRate
                     = <<IF calls[c].wasAccurate THEN 100 ELSE 0, 1>>
                /\ template.statistics.totalInvoicesProcessed = 1]_vars

\* ------------------------------------------------------------------------
\* C28: between queue operations, the activeJobs counter that getQueueStats
\* reports equals the number of PROCESSING jobs, and total is the sum of the
\* pending, processing, completed and failed counts.
C28_StatsConsistent ==
  LET stats == getQueueStats
  IN  /\ stats.activeJobs = stats.processing
      /\ stats.total = stats.pending + stats.processing + stats.completed
                         + stats.failed

\* two workers busy next to a waiting and a failed job
C28_Witness ==
  /\ getQueueStats.activeJobs = 2
  /\ getQueueStats.processing = 2
  /\ getQueueStats.pending >= 1
  /\ getQueueStats.failed >= 1

\* ------------------------------------------------------------------------
\* C29: a job that is PROCESSING has had no deleteFile call made for its
\* file.
C29_ProcessingFileNotDeleted ==
  \A j \in DOMAIN jobs :
    jobs[j].status = "PROCESSING" => deleteCalls[jobs[j].filePath] = 0

\* ------------------------------------------------------------------------
\* C30 (as stated): canAutoApprove implies a gstin score of 95.
C30_AutoApproveNeedsValidTaxId ==
  Validated =>
    (Result.canAutoApprove => Result.fieldConfidence.gstin = 95)

\* C30: canAutoApprove implies that the record carries a supplierGSTIN; its
\* gstin score is then 95 (structurally valid) or 30 (not valid).
C30_AutoApproveNeedsTaxId ==
  Validated =>
    (Result.canAutoApprove =>
       /\ record.supplierGSTIN # ""
       /\ Result.fieldConfidence.gstin \in {30, 95})

\* a record with a malformed GSTIN is auto-approved
C30_Witness ==
  /\ Validated
  /\ Result.canAutoApprove
  /\ ~validateGSTINFormat(record.supplierGSTIN).valid
  /\ Result.fieldConfidence.gstin = 30

\* ------------------------------------------------------------------------
\* no call of the service was made while another one was in flight
Sequential == \A c \in 1..MaxCalls : ~calls[c].overlaps

\* the stored template counts every returned learnFromInvoice call and its
\* averages are the means over their records
MeansOverReturned ==
  LET k == Cardinality(Returned)
  IN  /\ metadata # NoTemplate
      /\ metadata[1].statistics.totalInvoicesProcessed = k
      /\ metadata[1].patterns.avgTotalAmount
           = Fraction(SumOver(Returned, "totalAmount"), k)
      /\ metadata[1].patterns.avgItemCount
           = Fraction(SumOver(Returned, "items"), k)

\* C21: after k learnFromInvoice calls made one after the other,
\* totalInvoicesProcessed is k and avgTotalAmount and avgItemCount are the
\* arithmetic means of the k totals and the k item counts.
C21_SequentialMeans ==
  (Sequential /\ AllReturned /\ Returned # {}) => MeansOverReturned

\* the same while no cache command has failed
C21_SequentialMeansWhileCacheAnswers ==
  (Sequential /\ AllReturned /\ Returned # {} /\ cacheFaults = 0)
    => MeansOverReturned

\* ------------------------------------------------------------------------
\* how often a value was observed in the records of the returned
\* learnFromInvoice calls
RECURSIVE Observed(_, _, _)
Observed(returned, field, val) ==
  IF returned = {} THEN 0
  ELSE LET c == CHOOSE x \in returned : TRUE
           items == calls[c].invoiceData.items
           values == IF field = "hsnCode" THEN MapHsnCode(items)
                                          ELSE MapName(items)
       IN  Count(values, val) + Observed(returned \ {c}, field, val)

ByDescendingFrequency(list, field) ==
  \A i, j \in 1..Len(list) :
    i < j => Observed(Returned, field, list[i])
               >= Observed(Returned, field, list[j])

\* C22: after learnFromInvoice calls made one after the other, with no
\* cache failure, commonHSNCodes and commonItemNames have at most 20
\* entries each and are in descending order of how often the value was
\* observed over all records learned.
C22_ListsByFrequency ==
  (Sequential /\ AllReturned /\ cacheFaults = 0 /\ metadata # NoTemplate)
    => /\ Len(metadata[1].patterns.commonHSNCodes) <= 20
       /\ Len(metadata[1].patterns.commonItemNames) <= 20
       /\ ByDescendingFrequency(metadata[1].patterns.commonHSNCodes,
                                "hsnCode")
       /\ ByDescendingFrequency(metadata[1].patterns.commonItemNames,
                                "name")

\* ------------------------------------------------------------------------
\* validateAgainstTemplate, entered by call c, returns in this step
Matched(c) == calls[c].op = "match" /\ Resolves(c)

ColdStart(result) ==
  /\ result.matches = TRUE
  /\ result.anomalies = <<>>
  /\ result.confidence = 50
  /\ Len(result.suggestions) = 1

\* C23: validateAgainstTemplate returns matches = true, no anomaly,
\* confidence 50 and one suggestion when the supplier has no template, and
\* only then.
C23_ColdStartIffNoTemplate ==
  [][\A c \in 1..MaxCalls :
       Matched(c) =>
         (ColdStart(calls'[c].result[1]) <=> metadata = NoTemplate)]_vars

\* ------------------------------------------------------------------------
FiredRules(template, invoiceData) ==
  {Rules[i] : i \in {k \in 1..Len(Rules) :
                       Fires(Rules[k], template, invoiceData)}}

RECURSIVE PenaltiesOf(_)
PenaltiesOf(rules) ==
  IF rules = {} THEN 0
  ELSE LET r == CHOOSE x \in rules : TRUE
       IN  (CASE r = "invoiceNumberFormat" -> 10
              [] r = "itemCount" -> 5
              [] r = "totalAmount" -> 15
              [] r = "gstType" -> 10
              [] r = "hsnCodes" -> 10
              [] r = "itemNames" -> 15)
           + PenaltiesOf(rules \ {r})

\* the result is the scoring of the record against this template
ScoredAgainst(result, template, invoiceData) ==
  LET fired == FiredRules(template, invoiceData)
  IN  /\ result.confidence = Max(0, Min(100, 100 - PenaltiesOf(fired)))
      /\ SeqToSet(result.anomalies) = fired
      /\ Len(result.anomalies) = Cardinality(fired)
      /\ result.matches <=> fired = {}

\* C24: when the supplier has a template, validateAgainstTemplate returns
\* confidence 100 minus the penalties of the rules that fired (10, 5, 15,
\* 10, 10, 15), clamped to 0..100, one anomaly per fired rule, and matches
\* exactly when none fired.
C24_PenaltiesWhenTemplateExists ==
  [][\A c \in 1..MaxCalls :
       (Matched(c) /\ metadata # NoTemplate) =>
         \E held \in {metadata, cached} \ {NoTemplate} :
           ScoredAgainst(calls'[c].result[1], held[1],
                         calls[c].invoiceData)]_vars

\* the same for the template getTemplate handed over
C24_PenaltiesForTemplateInHand ==
  [][\A c \in 1..MaxCalls :
       (Matched(c) /\ calls'[c].got # NoTemplate) =>
         ScoredAgainst(calls'[c].result[1], calls'[c].got[1],
                       calls[c].invoiceData)]_vars

\* ------------------------------------------------------------------------
\* C27: the invoiceNumberFormat a new template gets from an invoice number
\* matches that invoice number.
C27_PatternMatchesItsSource ==
  \A c \in 1..MaxCalls :
    (calls[c].op = "learn" /\ calls[c].template # NoTemplate
       /\ calls[c].got = NoTemplate)
      => RegExpTest(calls[c].template[1].patterns.invoiceNumberFormat,
                    calls[c].invoiceData.invoiceNumber)

\* ------------------------------------------------------------------------
Suggested == corrections # NoCorrections
TotalCorrections ==
  SelectSeq(corrections[1].suggestions,
            LAMBDA sug : sug.field = "totalAmount")

\* C26: whenever generateCorrectionSuggestions returns for a record and its
\* validation result, an amounts score below 90 (0 included) comes with one
\* correction for totalAmount, of confidence 85 and with the sum of the
\* line-item amounts plus the tax components as its suggested value; an
\* amounts score of 90 or more comes with none.
C26_TotalCorrectionBelow90 ==
  (Suggested /\ ~corrections[1].rejected) =>
    IF Result.fieldConfidence.amounts < 90
      THEN /\ Len(TotalCorrections) = 1
           /\ TotalCorrections[1].suggestedValue
                = SumAmounts(record.items) + gstTotal(record)
           /\ TotalCorrections[1].confidence = 85
      ELSE TotalCorrections = <<>>

\* the same for amounts scores other than 0
C26_TotalCorrectionBetween1And89 ==
  (Suggested /\ ~corrections[1].rejected
     /\ Result.fieldConfidence.amounts # 0)
    => IF Result.fieldConfidence.amounts < 90
         THEN /\ Len(TotalCorrections) = 1
              /\ TotalCorrections[1].suggestedValue
                   = SumAmounts(record.items) + gstTotal(record)
              /\ TotalCorrections[1].confidence = 85
         ELSE TotalCorrections = <<>>

\* ========================================================================
\* invoiceController.ts: createPurchaseBill and updateBillStatus
\*
\* The bills of the one supplier, by invoice number (createPurchaseBill
\* answers 409 for a number the supplier already has).  Products, stock and
\* inventory transactions are left out of the state.  The database
\* statements of a handler up to its learnFromInvoice call are one step.
\* ========================================================================
validStatuses == {"PENDING", "APPROVED", "REJECTED"}

\* the invoiceData createPurchaseBill builds from the request body
FromBody(invoiceData) == [invoiceData EXCEPT !.confidence = 95]

\* POST: the bill is created with the status of the request body; if that
\* is APPROVED, learnFromInvoice is called with wasAccurate = true.
CreatePurchaseBill ==
  \E invoiceData \in LearnedInvoices, status \in validStatuses :
    /\ bills[invoiceData.invoiceNumber] = NoBill
    /\ bills' = [bills EXCEPT ![invoiceData.invoiceNumber] = status]
    /\ IF status = "APPROVED"
         THEN /\ Called < MaxCalls
              /\ calls' = [calls EXCEPT ![Called + 1] =
                             CallOf("learn", FromBody(invoiceData), TRUE)]
         ELSE UNCHANGED calls
    /\ UNCHANGED <<queueVars, validateVars, redisClient, connected, cached,
                   metadata, cacheFaults>>

\* PUT status: the bill's status is set; nothing else is called for the
\* template.  A request for an unknown bill is answered 404.
UpdateBillStatus ==
  \E n \in BilledNumbers, status \in validStatuses :
    /\ bills[n] # NoBill
    /\ bills' = [bills EXCEPT ![n] = status]
    /\ UNCHANGED <<queueVars, validateVars, templateVars>>

BillNext ==
  \/ CreatePurchaseBill
  \/ UpdateBillStatus
  \/ \E c \in 1..MaxCalls : CacheGetReturns(c)
  \/ \E c \in 1..MaxCalls : FindUniqueReturns(c)
  \/ \E c \in 1..MaxCalls : CacheFillReturns(c)
  \/ \E c \in 1..MaxCalls : SupplierUpdateReturns(c)
  \/ \E c \in 1..MaxCalls : CacheSaveReturns(c)
  \/ RedisDisconnects
  \/ RedisReconnects
  \/ KeyExpires

BillSpec == TemplateInit /\ [][BillNext]_vars

\* learnFromInvoice calls made for the bill with this invoice number
LearnCallsFor(n) ==
  Cardinality({c \in 1..MaxCalls :
                 /\ calls[c].op = "learn"
                 /\ calls[c].invoiceData.invoiceNumber = n})

BecomesApproved(n) == bills[n] # "APPROVED" /\ bills'[n] = "APPROVED"

\* ------------------------------------------------------------------------
\* C25: a step in which a bill becomes APPROVED, by its creation or by a
\* status update, makes exactly one learnFromInvoice call for that bill, and
\* no other step makes one.
C25_LearnOnApproval ==
  [][\A n \in BilledNumbers :
       LearnCallsFor(n)' =
         LearnCallsFor(n) + (IF BecomesApproved(n) THEN 1 ELSE 0)]_vars

\* the same for bills that are created as APPROVED or never approved
C25_LearnOnCreation ==
  [][\A n \in BilledNumbers :
       LearnCallsFor(n)' =
         LearnCallsFor(n)
           + (IF bills[n] = NoBill /\ bills'[n] = "APPROVED" THEN 1 ELSE 0)]_vars
====
